---- MODULE Spec2Model ----
(***************************************************************************)
(* A model of the Cooklang recipe parser (src/src/cooklang/Parser.ts) and  *)
(* of the quantity formatter of the recipe page (src/unnamed/part_000).    *)
(*                                                                         *)
(* Strings are sequences of one-character strings.  JavaScript numbers are *)
(* exact rationals n/d in lowest terms, plus NaN and +-Infinity; binary    *)
(* floating-point rounding error is not modelled.                          *)
(***************************************************************************)
EXTENDS Integers, Sequences, FiniteSets, TLC

(***************************************************************************)
(* Bounds of the model.                                                    *)
(***************************************************************************)
MaxQtyLen == 5

MaxWhole == 1

MaxNumer == 2

MaxDenom == 3

MaxScale == 120

MaxFragments == 3

MaxPageFragments == 2

(***************************************************************************)
(* Characters.                                                             *)
(***************************************************************************)
Digits == <<"0", "1", "2", "3", "4", "5", "6", "7", "8", "9">>

DigitChars == {Digits[i] : i \in 1..10}

\* \s of a JavaScript regular expression, and what String.prototype.trim strips
WhiteSpace == {" ", "\t", "\n", "\r"}

DigitVal(c) == (CHOOSE i \in 1..10 : Digits[i] = c) - 1

(***************************************************************************)
(* String helpers (methods of String.prototype).                           *)
(***************************************************************************)
Abs(x) == IF x < 0 THEN -x ELSE x

RECURSIVE GCD(_, _)
GCD(a, b) == IF b = 0 THEN a ELSE GCD(b, a % b)

Includes(s, c) == \E i \in 1..Len(s) : s[i] = c

RECURSIVE TrimStart(_)
TrimStart(s) ==
    IF s # <<>> /\ Head(s) \in WhiteSpace THEN TrimStart(Tail(s)) ELSE s

RECURSIVE TrimEnd(_)
TrimEnd(s) ==
    IF s # <<>> /\ s[Len(s)] \in WhiteSpace
    THEN TrimEnd(SubSeq(s, 1, Len(s) - 1))
    ELSE s

Trim(s) == TrimEnd(TrimStart(s))

\* s.split(c) for a one-character separator c: the pieces between separators
RECURSIVE SplitAcc(_, _, _)
SplitAcc(s, c, cur) ==
    IF s = <<>> THEN <<cur>>
    ELSE IF Head(s) = c THEN <<cur>> \o SplitAcc(Tail(s), c, <<>>)
    ELSE SplitAcc(Tail(s), c, Append(cur, Head(s)))

Split(s, c) == SplitAcc(s, c, <<>>)

RECURSIVE NatToStr(_)
NatToStr(n) ==
    IF n < 10 THEN <<Digits[n + 1]>>
    ELSE Append(NatToStr(n \div 10), Digits[(n % 10) + 1])

RECURSIVE DigitsToNat(_)
DigitsToNat(s) ==
    IF s = <<>> THEN 0
    ELSE 10 * DigitsToNat(SubSeq(s, 1, Len(s) - 1)) + DigitVal(s[Len(s)])

RECURSIVE Pow10(_)
Pow10(k) == IF k = 0 THEN 1 ELSE 10 * Pow10(k - 1)

AllDigits(s) == \A i \in 1..Len(s) : s[i] \in DigitChars

(***************************************************************************)
(* JavaScript values: number | string | undefined, in one record shape.    *)
(***************************************************************************)
Num(n, d) ==
    LET g == GCD(Abs(n), d)
    IN  [k |-> "num", n |-> n \div g, d |-> d \div g, s |-> <<>>]

NaN == [k |-> "nan", n |-> 0, d |-> 1, s |-> <<>>]

Inf(sign) == [k |-> "inf", n |-> sign, d |-> 1, s |-> <<>>]

Str(s) == [k |-> "str", n |-> 0, d |-> 1, s |-> s]

Undefined == [k |-> "undef", n |-> 0, d |-> 1, s |-> <<>>]

IsNumeric(v) == v.k = "num"

\* a / b of two JavaScript numbers (no negative zero arises: divisors are parsed
\* from digit strings)
JsDiv(a, b) ==
    IF a.k = "nan" \/ b.k = "nan" THEN NaN
    ELSE IF a.k = "inf" THEN (IF b.k = "inf" THEN NaN ELSE a)
    ELSE IF b.k = "inf" THEN Num(0, 1)
    ELSE IF b.n = 0 THEN (IF a.n = 0 THEN NaN ELSE Inf(IF a.n < 0 THEN -1 ELSE 1))
    ELSE Num(a.n * b.d * (IF b.n < 0 THEN -1 ELSE 1), a.d * Abs(b.n))

JsAdd(a, b) ==
    IF a.k = "nan" \/ b.k = "nan" THEN NaN
    ELSE IF a.k = "inf" THEN (IF b.k = "inf" /\ b.n # a.n THEN NaN ELSE a)
    ELSE IF b.k = "inf" THEN b
    ELSE Num(a.n * b.d + b.n * a.d, a.d * b.d)

\* Number(s) for a string of digits, '.', and other characters: surrounding
\* white space is ignored, the empty string is 0, an unsigned decimal literal
\* (digits, digits., digits.digits, .digits) is its value, all else is NaN
JsNumber(s) ==
    LET t == Trim(s)
        parts == Split(t, ".")
    IN  IF t = <<>> THEN Num(0, 1)
        ELSE IF Len(parts) = 1 /\ AllDigits(t) THEN Num(DigitsToNat(t), 1)
        ELSE IF /\ Len(parts) = 2
                /\ AllDigits(parts[1])
                /\ AllDigits(parts[2])
                /\ Len(parts[1]) + Len(parts[2]) > 0
        THEN Num(DigitsToNat(parts[1] \o parts[2]), Pow10(Len(parts[2])))
        ELSE NaN

\* Number(x) of an array element that may be missing (undefined)
JsNumberAt(pieces, i) == IF i <= Len(pieces) THEN JsNumber(pieces[i]) ELSE NaN

(***************************************************************************)
(* Quantity parser, Parser.ts.                                             *)
(***************************************************************************)
parseNonMixedFraction(fraction) ==
    LET pieces == Split(fraction, "/")
    IN  JsDiv(JsNumberAt(pieces, 1), JsNumberAt(pieces, 2))

\* mutant: the whole part of a mixed fraction is dropped
MutParseMixedFractionNoWhole(mixedFraction) ==
    parseNonMixedFraction(Split(mixedFraction, " ")[2])

parseMixedFraction(mixedFraction) ==
    LET pieces == Split(mixedFraction, " ")
        whole == JsNumber(pieces[1])
        fractional == parseNonMixedFraction(pieces[2])
    IN  JsAdd(whole, fractional)

\* /^[0-9.\/\s%]+$/.test(quantity)
IsNumberShaped(quantity) ==
    /\ quantity # <<>>
    /\ \A i \in 1..Len(quantity) :
          quantity[i] \in DigitChars \cup {".", "/", "%"} \cup WhiteSpace

ParsedQuantity(q, f) == [quantity |-> q, wasFraction |-> f]

\* An absent capture group (undefined) and an empty one are both the empty
\* sequence: the code tests them alike (!quantity).
parseQuantity(quantity) ==
    IF quantity = <<>> \/ Trim(quantity) = <<>>
    THEN ParsedQuantity(Undefined, FALSE)
    ELSE IF ~IsNumberShaped(quantity)
    THEN ParsedQuantity(Str(Trim(quantity)), FALSE)
    ELSE LET q == Trim(quantity)
         IN  IF Includes(q, " ")
             THEN ParsedQuantity(parseMixedFraction(q), TRUE)
             ELSE IF Includes(q, "/")
             THEN ParsedQuantity(parseNonMixedFraction(q), TRUE)
             ELSE IF JsNumber(q).k # "nan"
             THEN ParsedQuantity(JsNumber(q), FALSE)
             ELSE ParsedQuantity(Str(q), FALSE)

parseUnits(units) ==
    IF units = <<>> \/ Trim(units) = <<>> THEN Undefined ELSE Str(Trim(units))

(***************************************************************************)
(* Quantity scaler and formatter, part_000.                                *)
(***************************************************************************)
acceptableDenominators == <<1, 2, 3, 4, 5, 6, 7, 8, 9>>

\* maxDistanceToNumerator = 0.01, as the rational 1 / maxDistanceToNumeratorInv
maxDistanceToNumeratorInv == 100

JsMul(a, b) ==
    IF a.k = "nan" \/ b.k = "nan" THEN NaN
    ELSE IF a.k = "inf" \/ b.k = "inf"
    THEN (IF a.n = 0 \/ b.n = 0 THEN NaN
          ELSE Inf(IF (a.n < 0) = (b.n < 0) THEN 1 ELSE -1))
    ELSE Num(a.n * b.n, a.d * b.d)

\* Math.floor and Math.round (half up) of a non-negative rational
Floor(v) == v.n \div v.d

Round(v) == (2 * v.n + v.d) \div (2 * v.d)

\* Math.abs(x - k) <= 1 / inv, for a rational x and an integer k
WithinOf(x, k, inv) == inv * Abs(x.n - k * x.d) <= x.d

scaleQuantity(quantity, sc) ==
    IF quantity.k = "str" THEN quantity
    ELSE IF quantity.k \in {"undef", "nan"} THEN quantity
    ELSE JsMul(quantity, sc)

\* f.toFixed(1): the magnitude rounded half up to tenths, behind the sign of f
ToFixed1(f) ==
    LET tenths == (20 * Abs(f.n) + f.d) \div (2 * f.d)
    IN  (IF f.n < 0 THEN <<"-">> ELSE <<>>)
            \o NatToStr(tenths \div 10) \o <<".">> \o NatToStr(tenths % 10)

NaNText == <<"N", "a", "N">>

InfinityText(sign) ==
    (IF sign < 0 THEN <<"-">> ELSE <<>>)
        \o <<"I", "n", "f", "i", "n", "i", "t", "y">>

\* roundFixed: 0 and NaN are returned as they are (shown as "0" and "NaN")
roundFixed(f) ==
    IF f.k = "nan" THEN NaNText
    ELSE IF f.k = "inf" THEN InfinityText(f.n)
    ELSE IF f.n = 0 THEN <<"0">>
    ELSE LET fixed == ToFixed1(f)
         IN  IF SubSeq(fixed, Len(fixed) - 1, Len(fixed)) = <<".", "0">>
             THEN SubSeq(fixed, 1, Len(fixed) - 2)
             ELSE fixed

\* acceptableDenominators.find(d => |d * n - Math.round(d * n)| <= 0.01), from
\* index i on; 0 stands for undefined
Qualifies(n, d, inv) ==
    LET dn == Num(d * n.n, n.d) IN WithinOf(dn, Round(dn), inv)

\* mutant: a tolerance of 0.1 in place of 0.01
MutFindDenominatorWide(n, i) ==
    IF \E j \in i..Len(acceptableDenominators) :
           Qualifies(n, acceptableDenominators[j], 10)
    THEN acceptableDenominators[
             CHOOSE j \in i..Len(acceptableDenominators) :
                 /\ Qualifies(n, acceptableDenominators[j], 10)
                 /\ \A h \in i..(j - 1) : ~Qualifies(n, acceptableDenominators[h], 10)]
    ELSE 0

\* mutant: the largest qualifying denominator wins, not the smallest
MutFindDenominatorLargest(n, i) ==
    IF \E j \in i..Len(acceptableDenominators) :
           Qualifies(n, acceptableDenominators[j], maxDistanceToNumeratorInv)
    THEN acceptableDenominators[
             CHOOSE j \in i..Len(acceptableDenominators) :
                 /\ Qualifies(n, acceptableDenominators[j], maxDistanceToNumeratorInv)
                 /\ \A h \in (j + 1)..Len(acceptableDenominators) :
                        ~Qualifies(n, acceptableDenominators[h], maxDistanceToNumeratorInv)]
    ELSE 0

RECURSIVE FindDenominator(_, _)
FindDenominator(n, i) ==
    IF i > Len(acceptableDenominators) THEN 0
    ELSE LET d == acceptableDenominators[i]
         IN  IF Qualifies(n, d, maxDistanceToNumeratorInv)
             THEN d
             ELSE FindDenominator(n, i + 1)

\* "" + k for an integer k
IntToStr(k) == (IF k < 0 THEN <<"-">> ELSE <<>>) \o NatToStr(Abs(k))

numberToFractionString(n, isFraction) ==
    IF n.k = "undef" THEN <<>>
    ELSE IF n.k = "str" THEN n.s
    ELSE IF ~isFraction THEN roundFixed(n)
    ELSE IF n.k \in {"nan", "inf"} THEN NaNText
    ELSE LET negative == n.n < 0
             m == Num(Abs(n.n), n.d)
             wholePart == Floor(m)
             rest == Num(m.n - wholePart * m.d, m.d)
             denom == FindDenominator(rest, 1)
             numer == Round(Num(denom * rest.n, rest.d))
         IN  IF denom = 0 THEN roundFixed(JsAdd(rest, Num(wholePart, 1)))
             ELSE IF denom = 1
             THEN IntToStr((wholePart + numer) * (IF negative THEN -1 ELSE 1))
             ELSE (IF negative THEN <<"-">> ELSE <<>>)
                     \o (IF wholePart # 0 THEN NatToStr(wholePart) \o <<" ">> ELSE <<>>)
                     \o NatToStr(numer) \o <<"/">> \o NatToStr(denom)

(***************************************************************************)
(* Tokenizer patterns (./tokens: comment, blockComment, shoppingList,      *)
(* tokens).  The patterns are those of the Cooklang markup described in    *)
(* section 4.2 of the specification:                                       *)
(*   comment        --.*                                                   *)
(*   blockComment   \s*\[\-.*?\-\]\s*                                      *)
(*   shoppingList   \[(name .+)\]\n(items [^]*?)(?:\n\n|$)                 *)
(*   metadata       ^>>\s*(key .+?):\s*(value .+)                          *)
(*   ingredient     @(name [^@#~[]+?)\{(quantity [^]*?)(?:%(units [^}]+?))?\} *)
(*                  @(name [^\s\p{P}]+)                                    *)
(*   cookware       #(name [^@#~[]+?)\{(quantity .*?)\}                    *)
(*                  #(name [^\s\p{P}]+)                                    *)
(*   timer          ~(name .*?)\{(quantity .*?)(?:%(units .+?))?\}         *)
(* Indexes into strings are 1-based here; a match's index is 0-based, as   *)
(* in JavaScript.                                                          *)
(***************************************************************************)
LineTerminators == {"\n", "\r"}

\* \p{P} among the ASCII characters
Punctuation ==
    {"!", "\"", "#", "%", "&", "'", "(", ")", "*", ",", "-", ".", "/", ":", ";",
     "?", "@", "[", "\\", "]", "_", "{", "}"}

\* the least index i >= from with s[i] = c; 0 when there is none
FirstIndex(s, from, c) ==
    IF \E i \in from..Len(s) : s[i] = c
    THEN CHOOSE i \in from..Len(s) :
             s[i] = c /\ \A j \in from..(i - 1) : s[j] # c
    ELSE 0

\* how many white-space characters s holds from index from on, and up to it
WsAfter(s, from) ==
    CHOOSE w \in 0..Len(s) :
        /\ \A j \in from..(from + w - 1) : j <= Len(s) /\ s[j] \in WhiteSpace
        /\ (from + w > Len(s) \/ s[from + w] \notin WhiteSpace)

WsBefore(s, upto) ==
    CHOOSE w \in 0..Len(s) :
        /\ \A j \in (upto - w + 1)..upto : j >= 1 /\ s[j] \in WhiteSpace
        /\ (upto - w < 1 \/ s[upto - w] \notin WhiteSpace)

\* the named capture groups of a match; an absent group is the empty string
NoGroups ==
    [key |-> <<>>, value |-> <<>>,
     sIngredientName |-> <<>>, mIngredientName |-> <<>>,
     mIngredientQuantity |-> <<>>, mIngredientUnits |-> <<>>,
     sCookwareName |-> <<>>, mCookwareName |-> <<>>, mCookwareQuantity |-> <<>>,
     timerName |-> <<>>, timerQuantity |-> <<>>, timerUnits |-> <<>>]

Match(index, length, groups) ==
    [index |-> index, length |-> length, groups |-> groups]

NoMatch == Match(-1, 0, NoGroups)

\* metadata, at the start of the line only: \s* is greedy, the key lazy
MetadataMatch(s) ==
    IF ~(Len(s) >= 2 /\ s[1] = ">" /\ s[2] = ">") THEN NoMatch
    ELSE LET cands == {wc \in (0..WsAfter(s, 3)) \X (4..(Len(s) - 1)) :
                          wc[2] >= wc[1] + 4 /\ s[wc[2]] = ":"}
         IN  IF cands = {} THEN NoMatch
             ELSE LET w == CHOOSE x \in {wc[1] : wc \in cands} :
                               \A wc \in cands : wc[1] <= x
                      c == CHOOSE x \in {wc[2] : wc \in {y \in cands : y[1] = w}} :
                               \A wc \in cands : wc[1] = w => x <= wc[2]
                      after == WsAfter(s, c + 1)
                      w2 == IF c + after >= Len(s) THEN Len(s) - c - 1 ELSE after
                 IN  Match(0, Len(s),
                           [NoGroups EXCEPT !.key = SubSeq(s, 3 + w, c - 1),
                                            !.value = SubSeq(s, c + 1 + w2, Len(s))])

\* the "{" closing the shortest name [^@#~[]+? that follows the sigil at p
NameBrace(s, p) ==
    LET ok(b) == /\ s[b] = "{"
                 /\ \A j \in (p + 1)..(b - 1) : s[j] \notin {"@", "#", "~", "["}
    IN  IF \E b \in (p + 2)..Len(s) : ok(b)
        THEN CHOOSE b \in (p + 2)..Len(s) :
                 ok(b) /\ \A b2 \in (p + 2)..(b - 1) : ~ok(b2)
        ELSE 0

\* the "}" closing "%units" when "%" is at e; the units may hold "}" (.+?) or
\* not ([^}]+?)
UnitsClose(s, e, unitsAny) ==
    LET f == FirstIndex(s, IF unitsAny THEN e + 2 ELSE e + 1, "}")
    IN  IF f >= e + 2 THEN f ELSE 0

\* the brace group opened by the "{" at b: the shortest quantity after which
\* "%units}" or "}" follows
BraceGroup(s, b, withUnits, unitsAny) ==
    LET units(e) == withUnits /\ s[e] = "%" /\ UnitsClose(s, e, unitsAny) # 0
        closes(e) == s[e] = "}" \/ units(e)
    IN  IF ~(\E e \in (b + 1)..Len(s) : closes(e))
        THEN [ok |-> FALSE, quantity |-> <<>>, units |-> <<>>, end |-> 0]
        ELSE LET e == CHOOSE x \in (b + 1)..Len(s) :
                          closes(x) /\ \A y \in (b + 1)..(x - 1) : ~closes(y)
             IN  IF units(e)
                 THEN [ok |-> TRUE,
                       quantity |-> SubSeq(s, b + 1, e - 1),
                       units |-> SubSeq(s, e + 1, UnitsClose(s, e, unitsAny) - 1),
                       end |-> UnitsClose(s, e, unitsAny)]
                 ELSE [ok |-> TRUE,
                       quantity |-> SubSeq(s, b + 1, e - 1),
                       units |-> <<>>,
                       end |-> e]

\* the longest run [^\s\p{P}]+ that follows the sigil at p
WordLength(s, p) ==
    CHOOSE n \in 0..Len(s) :
        /\ \A j \in (p + 1)..(p + n) :
              j <= Len(s) /\ s[j] \notin WhiteSpace \cup Punctuation
        /\ (p + n + 1 > Len(s) \/ s[p + n + 1] \in WhiteSpace \cup Punctuation)

MultiwordIngredientMatch(s, p) ==
    LET b == NameBrace(s, p)
        g == BraceGroup(s, b, TRUE, FALSE)
    IN  IF s[p] = "@" /\ b # 0 /\ g.ok
        THEN Match(p - 1, g.end - p + 1,
                   [NoGroups EXCEPT !.mIngredientName = SubSeq(s, p + 1, b - 1),
                                    !.mIngredientQuantity = g.quantity,
                                    !.mIngredientUnits = g.units])
        ELSE NoMatch

SingleWordIngredientMatch(s, p) ==
    IF s[p] = "@" /\ WordLength(s, p) > 0
    THEN Match(p - 1, WordLength(s, p) + 1,
               [NoGroups EXCEPT
                    !.sIngredientName = SubSeq(s, p + 1, p + WordLength(s, p))])
    ELSE NoMatch

MultiwordCookwareMatch(s, p) ==
    LET b == NameBrace(s, p)
        g == BraceGroup(s, b, FALSE, FALSE)
    IN  IF s[p] = "#" /\ b # 0 /\ g.ok
        THEN Match(p - 1, g.end - p + 1,
                   [NoGroups EXCEPT !.mCookwareName = SubSeq(s, p + 1, b - 1),
                                    !.mCookwareQuantity = g.quantity])
        ELSE NoMatch

SingleWordCookwareMatch(s, p) ==
    IF s[p] = "#" /\ WordLength(s, p) > 0
    THEN Match(p - 1, WordLength(s, p) + 1,
               [NoGroups EXCEPT
                    !.sCookwareName = SubSeq(s, p + 1, p + WordLength(s, p))])
    ELSE NoMatch

TimerMatch(s, p) ==
    LET b == FirstIndex(s, p + 1, "{")
        g == BraceGroup(s, b, TRUE, TRUE)
    IN  IF s[p] = "~" /\ b # 0 /\ g.ok
        THEN Match(p - 1, g.end - p + 1,
                   [NoGroups EXCEPT !.timerName = SubSeq(s, p + 1, b - 1),
                                    !.timerQuantity = g.quantity,
                                    !.timerUnits = g.units])
        ELSE NoMatch

\* the alternatives of tokens in their order, tried at index p
TokenAt(s, p) ==
    IF p = 1 /\ MetadataMatch(s) # NoMatch THEN MetadataMatch(s)
    ELSE IF MultiwordIngredientMatch(s, p) # NoMatch
    THEN MultiwordIngredientMatch(s, p)
    ELSE IF SingleWordIngredientMatch(s, p) # NoMatch
    THEN SingleWordIngredientMatch(s, p)
    ELSE IF MultiwordCookwareMatch(s, p) # NoMatch
    THEN MultiwordCookwareMatch(s, p)
    ELSE IF SingleWordCookwareMatch(s, p) # NoMatch
    THEN SingleWordCookwareMatch(s, p)
    ELSE TimerMatch(s, p)

\* line.matchAll(tokens): the matches from left to right, none overlapping
RECURSIVE TokensFrom(_, _)
TokensFrom(s, p) ==
    IF p > Len(s) THEN <<>>
    ELSE IF TokenAt(s, p) # NoMatch
    THEN <<TokenAt(s, p)>>
             \o TokensFrom(s, TokenAt(s, p).index + TokenAt(s, p).length + 1)
    ELSE TokensFrom(s, p + 1)

Tokens(line) == TokensFrom(line, 1)

\* source.replace(comment, ''): "--" and the rest of its line are deleted
RECURSIVE StripLineComments(_, _)
StripLineComments(s, inComment) ==
    IF s = <<>> THEN <<>>
    ELSE IF Head(s) \in LineTerminators
    THEN <<Head(s)>> \o StripLineComments(Tail(s), FALSE)
    ELSE IF inComment THEN StripLineComments(Tail(s), TRUE)
    ELSE IF Len(s) >= 2 /\ s[1] = "-" /\ s[2] = "-"
    THEN StripLineComments(Tail(s), TRUE)
    ELSE <<Head(s)>> \o StripLineComments(Tail(s), FALSE)

\* the "-]" closing the block comment opened by "[-" at o; 0 when there is none
\* on the line
BlockCommentClose(s, o) ==
    LET ok(c) == /\ s[c] = "-"
                 /\ s[c + 1] = "]"
                 /\ \A j \in (o + 2)..(c - 1) : s[j] \notin LineTerminators
    IN  IF o + 1 <= Len(s) /\ s[o] = "[" /\ s[o + 1] = "-"
           /\ \E c \in (o + 2)..(Len(s) - 1) : ok(c)
        THEN CHOOSE c \in (o + 2)..(Len(s) - 1) :
                 ok(c) /\ \A c2 \in (o + 2)..(c - 1) : ~ok(c2)
        ELSE 0

\* source.replace(blockComment, ' '): a block comment and the white space
\* around it become one space
RECURSIVE ReplaceBlockComments(_)
ReplaceBlockComments(s) ==
    IF ~(\E o \in 1..Len(s) : BlockCommentClose(s, o) # 0) THEN s
    ELSE LET o == CHOOSE x \in 1..Len(s) :
                      /\ BlockCommentClose(s, x) # 0
                      /\ \A y \in 1..(x - 1) : BlockCommentClose(s, y) = 0
             last == BlockCommentClose(s, o) + 1
         IN  SubSeq(s, 1, o - 1 - WsBefore(s, o - 1))
                 \o <<" ">>
                 \o ReplaceBlockComments(
                        SubSeq(s, last + 1 + WsAfter(s, last + 1), Len(s)))

\* one match of shoppingList at the "[" at p: the name runs to the "]" that
\* ends the line, the items to the first blank line or to the end of the text
ShoppingListMatch(s, p) ==
    LET nl == FirstIndex(s, p, "\n")
        blank == CHOOSE e \in (nl + 1)..(Len(s) + 1) :
                     /\ (e > Len(s) - 1 \/ (s[e] = "\n" /\ s[e + 1] = "\n"))
                     /\ \A x \in (nl + 1)..(e - 1) :
                           ~(x <= Len(s) - 1 /\ s[x] = "\n" /\ s[x + 1] = "\n")
    IN  IF /\ s[p] = "["
           /\ nl >= p + 3
           /\ s[nl - 1] = "]"
           /\ \A j \in (p + 1)..(nl - 2) : s[j] \notin LineTerminators
        THEN IF blank <= Len(s) - 1
             THEN [index |-> p - 1, length |-> blank + 1 - p + 1,
                   name |-> SubSeq(s, p + 1, nl - 2),
                   items |-> SubSeq(s, nl + 1, blank - 1)]
             ELSE [index |-> p - 1, length |-> Len(s) - p + 1,
                   name |-> SubSeq(s, p + 1, nl - 2),
                   items |-> SubSeq(s, nl + 1, Len(s))]
        ELSE [index |-> -1, length |-> 0, name |-> <<>>, items |-> <<>>]

\* source.matchAll(shoppingList)
RECURSIVE ShoppingListMatchesFrom(_, _)
ShoppingListMatchesFrom(s, p) ==
    IF p > Len(s) THEN <<>>
    ELSE IF ShoppingListMatch(s, p).index >= 0
    THEN <<ShoppingListMatch(s, p)>>
             \o ShoppingListMatchesFrom(
                    s, ShoppingListMatch(s, p).index + ShoppingListMatch(s, p).length + 1)
    ELSE ShoppingListMatchesFrom(s, p + 1)

ShoppingListMatches(s) == ShoppingListMatchesFrom(s, 1)

(***************************************************************************)
(* Recipe parser, Parser.ts: the values it builds.                         *)
(***************************************************************************)
defaultUnits == <<>>

NoResult == ParsedQuantity(Undefined, FALSE)

\* the options a Parser is constructed with; Undefined is an option left out
NoOptions ==
    [defaultCookwareAmount |-> Undefined, defaultIngredientAmount |-> Undefined]

OverridingOptions ==
    [defaultCookwareAmount |-> Str(<<"o", "n", "e">>),
     defaultIngredientAmount |-> Num(2, 1)]

ParserOptions == {NoOptions, OverridingOptions}

\* options?.defaultCookwareAmount ?? 1
ConstructorCookwareAmount(options) ==
    ParsedQuantity(IF options.defaultCookwareAmount = Undefined
                   THEN Num(1, 1)
                   ELSE options.defaultCookwareAmount,
                   FALSE)

\* options?.defaultIngredientAmount ?? 'some'
ConstructorIngredientAmount(options) ==
    ParsedQuantity(IF options.defaultIngredientAmount = Undefined
                   THEN Str(<<"s", "o", "m", "e">>)
                   ELSE options.defaultIngredientAmount,
                   FALSE)

\* x ?? y where x is what parseQuantity returned: a ParsedQuantity object,
\* which is never null or undefined, so that y is never taken
QuantityOrDefault(x, y) == x

\* parseUnits(units) ?? this.defaultUnits
UnitsOrDefault(units) ==
    IF parseUnits(units) = Undefined THEN defaultUnits ELSE parseUnits(units).s

\* the parts of a Step, in one record shape
Text(value) ==
    [type |-> "text", step |-> -1, name |-> <<>>, quantity |-> NoResult,
     quantityIsFraction |-> FALSE, units |-> <<>>, value |-> value]

Ingredient(stepNumber, name, qty, isFraction, units) ==
    [type |-> "ingredient", step |-> stepNumber, name |-> name, quantity |-> qty,
     quantityIsFraction |-> isFraction, units |-> units, value |-> <<>>]

Cookware(stepNumber, name, qty) ==
    [type |-> "cookware", step |-> stepNumber, name |-> name, quantity |-> qty,
     quantityIsFraction |-> FALSE, units |-> <<>>, value |-> <<>>]

Timer(name, qty, units) ==
    [type |-> "timer", step |-> -1, name |-> name, quantity |-> qty,
     quantityIsFraction |-> FALSE, units |-> units, value |-> <<>>]

\* an object used as a map: m[k] = v
EmptyMap == [k \in {} |-> <<>>]

MapSet(m, k, v) == [x \in DOMAIN m \cup {k} |-> IF x = k THEN v ELSE m[x]]

RECURSIVE ItemsOf(_)
ItemsOf(pieces) ==
    IF pieces = <<>> THEN <<>>
    ELSE LET item == Trim(Head(pieces))
             cols == Split(item, "|")
         IN  IF item = <<>> THEN ItemsOf(Tail(pieces))
             ELSE <<[name |-> Trim(cols[1]),
                     synonym |-> IF Len(cols) >= 2 THEN Trim(cols[2]) ELSE <<>>]>>
                      \o ItemsOf(Tail(pieces))

parseShoppingListCategory(items) == ItemsOf(Split(items, "\n"))

\* s.substring(from, to), the end clamped to the length of s
JsSubstring(s, from, to) ==
    SubSeq(s, from + 1, IF to > Len(s) THEN Len(s) ELSE to)

\* source.split(/\r?\n/).filter((l) => l.trim().length > 0)
DropCarriageReturn(l) ==
    IF l # <<>> /\ l[Len(l)] = "\r" THEN SubSeq(l, 1, Len(l) - 1) ELSE l

SplitLines(s) ==
    LET pieces == Split(s, "\n")
    IN  [j \in 1..Len(pieces) |->
            IF j < Len(pieces) THEN DropCarriageReturn(pieces[j]) ELSE pieces[j]]

NonBlank(l) == Trim(l) # <<>>

RetainedLines(s) == SelectSeq(SplitLines(s), NonBlank)

(***************************************************************************)
(* State.                                                                  *)
(***************************************************************************)
VARIABLES
    defaultCookwareAmount,    \* Parser: field
    defaultIngredientAmount,  \* Parser: field
    document,       \* parse: the source it was called with
    source,         \* parse: the working source
    shoppingMatches,\* parse: the matches of shoppingList still to be visited
    shoppingList,   \* parse: result
    lines,          \* parse: the retained lines
    i,              \* parse: index of the line of stepLoop (0-based)
    stepNumber,     \* parse: the step counter
    steps,          \* parse: result
    ingredients,    \* parse: result
    cookwares,      \* parse: result
    metadata,       \* parse: result
    step,           \* parse: the Step of the current line
    pos,            \* parse: scan position in the current line (0-based)
    matches,        \* parse: the matches of tokens still to be visited
    pc,             \* parse: where the call is
    quantity,   \* parseQuantity: its argument, the raw quantity text
    parsed,     \* parseQuantity: its result, a ParsedQuantity
    scale,      \* part_000: the scale signal
    rendered,   \* part_000: the text numberToFractionString produced
    reparsed,   \* parseQuantity applied to the rendered text
    phase,      \* which of the functions have been applied
    recipe,             \* RecipeComponent: the recipe signal
    selected,           \* RecipeComponent: the selected signal
    checkedSteps,       \* part_000: the checkedSteps signal, a Set<number>
    stepChecked,        \* StepComponent: the checked signals of the mounted steps
    ingredientChecked   \* IngredientComponent: the checked signals of the mounted ingredients

parserVars ==
    <<defaultCookwareAmount, defaultIngredientAmount, document, source,
      shoppingMatches, shoppingList, lines, i, stepNumber, steps, ingredients,
      cookwares, metadata, step, pos, matches, pc>>

quantityVars == <<quantity, parsed, scale, rendered, reparsed, phase>>

pageVars == <<recipe, selected, checkedSteps, stepChecked, ingredientChecked>>

vars == <<parserVars, quantityVars, pageVars>>

\* no call of parse is under way
ParserIdle ==
    /\ defaultCookwareAmount = ConstructorCookwareAmount(NoOptions)
    /\ defaultIngredientAmount = ConstructorIngredientAmount(NoOptions)
    /\ document = <<>>
    /\ source = <<>>
    /\ shoppingMatches = <<>>
    /\ shoppingList = EmptyMap
    /\ lines = <<>>
    /\ i = 0
    /\ stepNumber = 0
    /\ steps = <<>>
    /\ ingredients = <<>>
    /\ cookwares = <<>>
    /\ metadata = EmptyMap
    /\ step = <<>>
    /\ pos = 0
    /\ matches = <<>>
    /\ pc = "idle"

\* no quantity is being parsed or rendered
QuantityIdle ==
    /\ quantity = <<>>
    /\ parsed = NoResult
    /\ scale = Num(1, 1)
    /\ rendered = <<>>
    /\ reparsed = NoResult
    /\ phase = "idle"

\* Sections
Sections == {"Ingredients", "Method"}

\* createSignal<RecipeProps | undefined>(undefined)
NoRecipe == [loaded |-> FALSE, ingredients |-> <<>>, steps |-> <<>>]

\* the recipe page before readRecipe has answered
PageIdle ==
    /\ recipe = NoRecipe
    /\ selected = "Ingredients"
    /\ checkedSteps = {}
    /\ stepChecked = <<>>
    /\ ingredientChecked = <<>>

(***************************************************************************)
(* Spec: one call of Parser.parse on a document made of a few fragments.   *)
(***************************************************************************)
Fragments ==
    << <<"\n">>,
       <<">", ">", " ", "k", ":", " ", "v", "\n">>,
       <<">", ">", "k", " ", ":", " ", "w", " ", "\n">>,
       <<"x", "[", "-", " ", "y", " ", "-", "]", "@", "s", " ", "#", "p", ".", "\n">>,
       <<"@", "a", " ", "b", "{", "1", "/", "2", "%", "c", "}", " ", "@", "d", "{", "}", "\n">>,
       <<"#", "p", " ", "q", "{", "}", "#", "r", "{", "2", "}", "\n">>,
       <<"B", "o", "i", "l", " ", "~", "{", "}", " ", "n", "o", "w", "\n">>,
       <<"~", "t", "{", "5", "%", "m", "}", " ", "-", "-", " ", "c", "\n">>,
       <<"[", "c", "]", "\n", "m", "|", "s", "\n", "\n">>,
       <<"~", "{", "}", "\n">> >>

RECURSIVE Concat(_)
Concat(fs) == IF fs = <<>> THEN <<>> ELSE Fragments[Head(fs)] \o Concat(Tail(fs))

Documents ==
    {Concat(fs) : fs \in UNION {[1..n -> 1..Len(Fragments)] : n \in 0..MaxFragments}}

Init ==
    /\ \E options \in ParserOptions :
          /\ defaultCookwareAmount = ConstructorCookwareAmount(options)
          /\ defaultIngredientAmount = ConstructorIngredientAmount(options)
    /\ document \in Documents
    /\ source = document
    /\ shoppingMatches = <<>>
    /\ shoppingList = EmptyMap
    /\ lines = <<>>
    /\ i = 0
    /\ stepNumber = 0
    /\ steps = <<>>
    /\ ingredients = <<>>
    /\ cookwares = <<>>
    /\ metadata = EmptyMap
    /\ step = <<>>
    /\ pos = 0
    /\ matches = <<>>
    /\ pc = "start"
    /\ QuantityIdle
    /\ PageIdle

\* source = source.replace(comment, '').replace(blockComment, ' '), and the
\* iterator of source.matchAll(shoppingListRegex), which keeps this source
StripComments ==
    /\ pc = "start"
    /\ source' = ReplaceBlockComments(StripLineComments(source, FALSE))
    /\ shoppingMatches' = ShoppingListMatches(source')
    /\ pc' = "shopping"
    /\ UNCHANGED <<defaultCookwareAmount, defaultIngredientAmount, document,
                   shoppingList, lines, i, stepNumber, steps, ingredients,
                   cookwares, metadata, step, pos, matches, quantityVars, pageVars>>

\* the body of the loop over the shopping lists.  The statement that follows
\* the assignment, +source.substring(index + length), is an expression whose
\* value is dropped.
ExtractShoppingList ==
    /\ pc = "shopping"
    /\ shoppingMatches # <<>>
    /\ LET match == Head(shoppingMatches)
       IN  /\ shoppingList' =
                  MapSet(shoppingList, match.name,
                         parseShoppingListCategory(match.items))
           /\ source' = JsSubstring(source, 0, match.index)
    /\ shoppingMatches' = Tail(shoppingMatches)
    /\ UNCHANGED <<defaultCookwareAmount, defaultIngredientAmount, document,
                   lines, i, stepNumber, steps, ingredients, cookwares,
                   metadata, step, pos, matches, pc, quantityVars, pageVars>>

\* const lines = ...; let stepNumber = 0
SplitSource ==
    /\ pc = "shopping"
    /\ shoppingMatches = <<>>
    /\ lines' = RetainedLines(source)
    /\ stepNumber' = 0
    /\ i' = 0
    /\ pc' = "stepLoop"
    /\ UNCHANGED <<defaultCookwareAmount, defaultIngredientAmount, document,
                   source, shoppingMatches, shoppingList, steps, ingredients,
                   cookwares, metadata, step, pos, matches, quantityVars, pageVars>>

\* the head of the body of stepLoop
BeginLine ==
    /\ pc = "stepLoop"
    /\ i < Len(lines)
    /\ step' = <<>>
    /\ pos' = 0
    /\ matches' = Tokens(lines[i + 1])
    /\ pc' = "scan"
    /\ UNCHANGED <<defaultCookwareAmount, defaultIngredientAmount, document,
                   source, shoppingMatches, shoppingList, lines, i, stepNumber,
                   steps, ingredients, cookwares, metadata, quantityVars, pageVars>>

IsMetadata(match) == match.groups.key # <<>> /\ match.groups.value # <<>>

\* mutant: the key of a metadata directive is stored as written, not trimmed
MutScanMetadataRawKey ==
    /\ pc = "scan"
    /\ matches # <<>>
    /\ IsMetadata(Head(matches))
    /\ metadata' = MapSet(metadata, Head(matches).groups.key,
                          Trim(Head(matches).groups.value))
    /\ i' = i + 1
    /\ pc' = "stepLoop"
    /\ UNCHANGED <<defaultCookwareAmount, defaultIngredientAmount, document,
                   source, shoppingMatches, shoppingList, lines, stepNumber,
                   steps, ingredients, cookwares, step, pos, matches,
                   quantityVars, pageVars>>

\* the body of the loop over the matches, for a metadata match: continue stepLoop
ScanMetadata ==
    /\ pc = "scan"
    /\ matches # <<>>
    /\ IsMetadata(Head(matches))
    /\ metadata' = MapSet(metadata, Trim(Head(matches).groups.key),
                          Trim(Head(matches).groups.value))
    /\ i' = i + 1
    /\ pc' = "stepLoop"
    /\ UNCHANGED <<defaultCookwareAmount, defaultIngredientAmount, document,
                   source, shoppingMatches, shoppingList, lines, stepNumber,
                   steps, ingredients, cookwares, step, pos, matches,
                   quantityVars, pageVars>>

\* the text between the scan position and the match
TextBefore(line, match) ==
    IF pos < match.index
    THEN <<Text(JsSubstring(line, pos, match.index))>>
    ELSE <<>>

SingleWordIngredient(groups) ==
    IF groups.sIngredientName # <<>>
    THEN <<Ingredient(stepNumber, groups.sIngredientName,
                      defaultIngredientAmount, FALSE, defaultUnits)>>
    ELSE <<>>

MultiwordIngredient(groups) ==
    LET qty == parseQuantity(groups.mIngredientQuantity)
    IN  IF groups.mIngredientName # <<>>
        THEN <<Ingredient(stepNumber, groups.mIngredientName,
                          QuantityOrDefault(qty, defaultIngredientAmount),
                          qty.wasFraction,
                          UnitsOrDefault(groups.mIngredientUnits))>>
        ELSE <<>>

SingleWordCookware(groups) ==
    IF groups.sCookwareName # <<>>
    THEN <<Cookware(stepNumber, groups.sCookwareName, defaultCookwareAmount)>>
    ELSE <<>>

MultiwordCookware(groups) ==
    IF groups.mCookwareName # <<>>
    THEN <<Cookware(stepNumber, groups.mCookwareName,
                    QuantityOrDefault(parseQuantity(groups.mCookwareQuantity),
                                      defaultCookwareAmount))>>
    ELSE <<>>

TimerPart(groups) ==
    IF groups.timerQuantity # <<>>
    THEN <<Timer(groups.timerName,
                 QuantityOrDefault(parseQuantity(groups.timerQuantity),
                                   ParsedQuantity(Num(0, 1), FALSE)),
                 UnitsOrDefault(groups.timerUnits))>>
    ELSE <<>>

\* mutant: a single-word ingredient is pushed to the Step only, not to the
\* flat list
MutScanTokenStepOnly ==
    /\ pc = "scan"
    /\ matches # <<>>
    /\ ~IsMetadata(Head(matches))
    /\ LET match == Head(matches)
           groups == match.groups
       IN  /\ step' = step \o TextBefore(lines[i + 1], match)
                          \o SingleWordIngredient(groups)
                          \o MultiwordIngredient(groups)
                          \o SingleWordCookware(groups)
                          \o MultiwordCookware(groups)
                          \o TimerPart(groups)
           /\ ingredients' = ingredients \o MultiwordIngredient(groups)
           /\ cookwares' = cookwares \o SingleWordCookware(groups)
                               \o MultiwordCookware(groups)
           /\ pos' = match.index + match.length
    /\ matches' = Tail(matches)
    /\ UNCHANGED <<defaultCookwareAmount, defaultIngredientAmount, document,
                   source, shoppingMatches, shoppingList, lines, i, stepNumber,
                   steps, metadata, pc, quantityVars, pageVars>>

\* the body of the loop over the matches, for any other match
ScanToken ==
    /\ pc = "scan"
    /\ matches # <<>>
    /\ ~IsMetadata(Head(matches))
    /\ LET match == Head(matches)
           groups == match.groups
       IN  /\ step' = step \o TextBefore(lines[i + 1], match)
                          \o SingleWordIngredient(groups)
                          \o MultiwordIngredient(groups)
                          \o SingleWordCookware(groups)
                          \o MultiwordCookware(groups)
                          \o TimerPart(groups)
           /\ ingredients' = ingredients \o SingleWordIngredient(groups)
                                 \o MultiwordIngredient(groups)
           /\ cookwares' = cookwares \o SingleWordCookware(groups)
                               \o MultiwordCookware(groups)
           /\ pos' = match.index + match.length
    /\ matches' = Tail(matches)
    /\ UNCHANGED <<defaultCookwareAmount, defaultIngredientAmount, document,
                   source, shoppingMatches, shoppingList, lines, i, stepNumber,
                   steps, metadata, pc, quantityVars, pageVars>>

\* the rest of the line after the last match
TextAfter(line) ==
    IF pos < Len(line)
    THEN <<Text(JsSubstring(line, pos, Len(line)))>>
    ELSE <<>>

\* mutant: the step counter advances for every line that was scanned
MutEndLineAlwaysCounts ==
    /\ pc = "scan"
    /\ matches = <<>>
    /\ step' = step \o TextAfter(lines[i + 1])
    /\ steps' = IF Len(step') > 0 THEN Append(steps, step') ELSE steps
    /\ stepNumber' = stepNumber + 1
    /\ i' = i + 1
    /\ pc' = "stepLoop"
    /\ UNCHANGED <<defaultCookwareAmount, defaultIngredientAmount, document,
                   source, shoppingMatches, shoppingList, lines, ingredients,
                   cookwares, metadata, pos, matches, quantityVars, pageVars>>

\* the tail of the body of stepLoop: the rest of the line, and the Step
EndLine ==
    /\ pc = "scan"
    /\ matches = <<>>
    /\ step' = step \o TextAfter(lines[i + 1])
    /\ IF Len(step') > 0
       THEN /\ steps' = Append(steps, step')
            /\ stepNumber' = stepNumber + 1
       ELSE UNCHANGED <<steps, stepNumber>>
    /\ i' = i + 1
    /\ pc' = "stepLoop"
    /\ UNCHANGED <<defaultCookwareAmount, defaultIngredientAmount, document,
                   source, shoppingMatches, shoppingList, lines, ingredients,
                   cookwares, metadata, pos, matches, quantityVars, pageVars>>

\* return { ingredients, cookwares, metadata, steps, shoppingList }
Return ==
    /\ pc = "stepLoop"
    /\ i >= Len(lines)
    /\ pc' = "done"
    /\ UNCHANGED <<defaultCookwareAmount, defaultIngredientAmount, document,
                   source, shoppingMatches, shoppingList, lines, i, stepNumber,
                   steps, ingredients, cookwares, metadata, step, pos, matches,
                   quantityVars, pageVars>>

Next ==
    \/ StripComments
    \/ ExtractShoppingList
    \/ SplitSource
    \/ BeginLine
    \/ ScanMetadata
    \/ ScanToken
    \/ EndLine
    \/ Return

Spec == Init /\ [][Next]_vars

(***************************************************************************)
(* SpecQty: parseQuantity applied to every short quantity text.            *)
(***************************************************************************)
QtyAlphabet == {"1", "2", ".", "/", " ", "%", "a"}

QtyTexts == UNION {[1..len -> QtyAlphabet] : len \in 0..MaxQtyLen}

InitQty ==
    /\ ParserIdle
    /\ PageIdle
    /\ quantity \in QtyTexts
    /\ parsed = NoResult
    /\ scale = Num(1, 1)
    /\ rendered = <<>>
    /\ reparsed = NoResult
    /\ phase = "raw"

ParseQuantity ==
    /\ phase = "raw"
    /\ parsed' = parseQuantity(quantity)
    /\ phase' = "parsed"
    /\ UNCHANGED <<parserVars, pageVars, quantity, scale, rendered, reparsed>>

NextQty == ParseQuantity

SpecQty == InitQty /\ [][NextQty]_vars

(***************************************************************************)
(* SpecFmt: a parsed quantity is scaled and rendered, and the rendered     *)
(* text is parsed again.                                                   *)
(***************************************************************************)
Fractions ==
    {NatToStr(n) \o <<"/">> \o NatToStr(d) : n \in 0..MaxNumer, d \in 0..MaxDenom}

FmtTexts ==
    Fractions
        \cup {NatToStr(w) \o <<" ">> \o f : w \in 0..MaxWhole, f \in Fractions}
        \cup {NatToStr(n) : n \in 0..MaxNumer}
        \cup {<<>>, <<"s", "o", "m", "e">>}

\* scale is startScale + (event.clientX - startX) / 100: a number of hundredths
Scales == {Num(k, 100) : k \in (-MaxScale)..MaxScale}

InitFmt ==
    /\ ParserIdle
    /\ PageIdle
    /\ quantity \in FmtTexts
    /\ parsed = parseQuantity(quantity)
    /\ scale \in Scales
    /\ rendered = <<>>
    /\ reparsed = NoResult
    /\ phase = "parsed"

Render ==
    /\ phase = "parsed"
    /\ rendered' = numberToFractionString(
                       scaleQuantity(parsed.quantity, scale), parsed.wasFraction)
    /\ phase' = "rendered"
    /\ UNCHANGED <<parserVars, pageVars, quantity, parsed, scale, reparsed>>

Reparse ==
    /\ phase = "rendered"
    /\ reparsed' = parseQuantity(rendered)
    /\ phase' = "reparsed"
    /\ UNCHANGED <<parserVars, pageVars, quantity, parsed, scale, rendered>>

NextFmt == Render \/ Reparse

SpecFmt == InitFmt /\ [][NextFmt]_vars

(***************************************************************************)
(* SpecPage: the recipe page of part_000.  readRecipe parses a document,   *)
(* then the step and ingredient checkboxes are toggled and the Ingredients *)
(* and Method tabs are selected in any order.  <Show> creates the          *)
(* components of a section when it is selected and disposes of them when   *)
(* the other one is, so a component's own signals live as long as its      *)
(* section is shown; checkedSteps belongs to the module and lives on.      *)
(***************************************************************************)
PageDocuments ==
    {Concat(fs) : fs \in UNION {[1..n -> 1..Len(Fragments)] : n \in 0..MaxPageFragments}}

InitPage ==
    /\ defaultCookwareAmount = ConstructorCookwareAmount(NoOptions)
    /\ defaultIngredientAmount = ConstructorIngredientAmount(NoOptions)
    /\ document \in PageDocuments
    /\ source = document
    /\ shoppingMatches = <<>>
    /\ shoppingList = EmptyMap
    /\ lines = <<>>
    /\ i = 0
    /\ stepNumber = 0
    /\ steps = <<>>
    /\ ingredients = <<>>
    /\ cookwares = <<>>
    /\ metadata = EmptyMap
    /\ step = <<>>
    /\ pos = 0
    /\ matches = <<>>
    /\ pc = "start"
    /\ QuantityIdle
    /\ PageIdle

\* createSignal(false) of each component a <For> creates
Unchecked(items) == [k \in 1..Len(items) |-> FALSE]

\* <Show when={selected() === section}>: the components of the section shown
MountStepComponents(section, r) ==
    IF section = "Method" THEN Unchecked(r.steps) ELSE <<>>

MountIngredientComponents(section, r) ==
    IF section = "Ingredients" THEN Unchecked(r.ingredients) ELSE <<>>

\* setRecipe(await readRecipe(params)): the result of the parse is shown
ReadRecipe ==
    /\ pc = "done"
    /\ ~recipe.loaded
    /\ recipe' = [loaded |-> TRUE, ingredients |-> ingredients, steps |-> steps]
    /\ stepChecked' = MountStepComponents(selected, recipe')
    /\ ingredientChecked' = MountIngredientComponents(selected, recipe')
    /\ UNCHANGED <<parserVars, quantityVars, selected, checkedSteps>>

\* onClick={() => setSelected(section)}
SetSelected(section) ==
    /\ selected' = section
    /\ IF section = selected
       THEN UNCHANGED <<stepChecked, ingredientChecked>>
       ELSE /\ stepChecked' = MountStepComponents(section, recipe)
            /\ ingredientChecked' = MountIngredientComponents(section, recipe)
    /\ UNCHANGED <<parserVars, quantityVars, recipe, checkedSteps>>

\* the step numbers of the ingredients of a Step
IngredientSteps(s) ==
    {s[k].step : k \in {j \in 1..Len(s) : s[j].type = "ingredient"}}

\* StepComponent.checkStep of the k-th step shown
checkStep(k) ==
    /\ k \in DOMAIN stepChecked
    /\ stepChecked' = [stepChecked EXCEPT ![k] = ~stepChecked[k]]
    /\ checkedSteps' = IF stepChecked'[k]
                       THEN checkedSteps \cup IngredientSteps(recipe.steps[k])
                       ELSE checkedSteps \ IngredientSteps(recipe.steps[k])
    /\ UNCHANGED <<parserVars, quantityVars, recipe, selected, ingredientChecked>>

\* IngredientComponent: onChange={() => setChecked(!checked())}
CheckIngredient(k) ==
    /\ k \in DOMAIN ingredientChecked
    /\ ingredientChecked' = [ingredientChecked EXCEPT ![k] = ~ingredientChecked[k]]
    /\ UNCHANGED <<parserVars, quantityVars, recipe, selected, checkedSteps,
                   stepChecked>>

\* IngredientComponent.isChecked of the k-th ingredient shown
isChecked(k) ==
    ingredientChecked[k] \/ recipe.ingredients[k].step \in checkedSteps

NextPage ==
    \/ Next
    \/ ReadRecipe
    \/ \E section \in Sections : SetSelected(section)
    \/ \E k \in DOMAIN stepChecked : checkStep(k)
    \/ \E k \in DOMAIN ingredientChecked : CheckIngredient(k)

SpecPage == InitPage /\ [][NextPage]_vars

(***************************************************************************)
(* Claims about Parser.parse (Spec).                                       *)
(***************************************************************************)
Scanning == pc \in {"stepLoop", "scan", "done"}

IsEntity(part) == part.type \in {"ingredient", "cookware"}

IsMetadataLine(line) == Tokens(line) # <<>> /\ IsMetadata(Tokens(line)[1])

RECURSIVE Flatten(_)
Flatten(ss) == IF ss = <<>> THEN <<>> ELSE Head(ss) \o Flatten(Tail(ss))

IsIngredient(part) == part.type = "ingredient"

IsCookware(part) == part.type = "cookware"

IsText(part) == part.type = "text"

\* s without the spans of the matches ms, which are in increasing order
RECURSIVE RemoveSpans(_, _)
RemoveSpans(s, ms) ==
    IF ms = <<>> THEN s
    ELSE LET m == ms[Len(ms)]
         IN  RemoveSpans(SubSeq(s, 1, m.index) \o SubSeq(s, m.index + m.length + 1, Len(s)),
                         SubSeq(ms, 1, Len(ms) - 1))

C2_NoAbsentQuantity ==
    /\ \A j \in 1..Len(ingredients) : ingredients[j].quantity.quantity # Undefined
    /\ \A j \in 1..Len(cookwares) : cookwares[j].quantity.quantity # Undefined

\* the source after the comments are stripped, and what is left of it when
\* exactly the spans of the shopping-list blocks are removed
Stripped == ReplaceBlockComments(StripLineComments(document, FALSE))

OutsideBlocks == RemoveSpans(Stripped, ShoppingListMatches(Stripped))

\* C3: exactly the spans of the shopping-list blocks are removed: every block
\* is recorded, and the lines that are scanned for Steps are the non-blank
\* lines outside all blocks, those after a block included.
C3_BlocksRemovedExactly ==
    Scanning =>
        /\ \A j \in 1..Len(ShoppingListMatches(Stripped)) :
              ShoppingListMatches(Stripped)[j].name \in DOMAIN shoppingList
        /\ lines = RetainedLines(OutsideBlocks)

\* C4: a line matched as a metadata directive sets metadata[trim(key)] to
\* trim(value), a later directive of the same key overwriting an earlier one,
\* and changes nothing else: no part of the line is in a Step or in a flat
\* list, and the step counter stays.
C4_MetadataOnly ==
    [][(pc = "scan" /\ matches # <<>> /\ IsMetadata(Head(matches)))
            => /\ step = <<>>
               /\ metadata' = MapSet(metadata, Trim(Head(matches).groups.key),
                                     Trim(Head(matches).groups.value))
               /\ UNCHANGED <<steps, ingredients, cookwares, stepNumber,
                              shoppingList>>]_vars

\* two directives of one key with different values were read, and a Step
C4_Witness ==
    /\ pc = "done"
    /\ Len(steps) > 0
    /\ \E j, h \in 1..Len(lines) :
          /\ j < h
          /\ IsMetadataLine(lines[j])
          /\ IsMetadataLine(lines[h])
          /\ Trim(Tokens(lines[j])[1].groups.key) = Trim(Tokens(lines[h])[1].groups.key)
          /\ Tokens(lines[j])[1].groups.key # Tokens(lines[h])[1].groups.key
          /\ metadata[Trim(Tokens(lines[h])[1].groups.key)]
                 # Trim(Tokens(lines[j])[1].groups.value)

\* C8: between lines and in the result, ingredients is the sequence of the
\* Ingredient parts of steps[0], steps[1], ... and cookwares that of their
\* Cookware parts; no Timer or TextSpan is in a flat list.
C8_FlatListsAreFlattening ==
    pc \in {"stepLoop", "done"} =>
        /\ ingredients = SelectSeq(Flatten(steps), IsIngredient)
        /\ cookwares = SelectSeq(Flatten(steps), IsCookware)

\* a result with ingredients of two Steps, cookware, a timer and text
C8_Witness ==
    /\ pc = "done"
    /\ Len(steps) >= 2
    /\ \E j, h \in 1..Len(ingredients) : ingredients[j].step # ingredients[h].step
    /\ cookwares # <<>>
    /\ \E j \in 1..Len(Flatten(steps)) : Flatten(steps)[j].type = "timer"
    /\ \E j \in 1..Len(Flatten(steps)) : Flatten(steps)[j].type = "text"

\* a match of tokens that makes the loop body push a part
ProducesPart(match) ==
    \/ match.groups.sIngredientName # <<>>
    \/ match.groups.mIngredientName # <<>>
    \/ match.groups.sCookwareName # <<>>
    \/ match.groups.mCookwareName # <<>>
    \/ match.groups.timerQuantity # <<>>

RECURSIVE TextOf(_)
TextOf(parts) ==
    IF parts = <<>> THEN <<>>
    ELSE (IF IsText(Head(parts)) THEN Head(parts).value ELSE <<>>)
             \o TextOf(Tail(parts))

\* C9: the scan of a line that is no metadata directive loses no text: the
\* TextSpans of its Step are, in order, all of the line that lies outside the
\* matches that produced a part, and a Step with parts is emitted.
C9_NoTextLost ==
    (pc = "stepLoop" /\ i > 0 /\ ~IsMetadataLine(lines[i])) =>
        /\ TextOf(step) = RemoveSpans(lines[i], SelectSeq(Tokens(lines[i]), ProducesPart))
        /\ steps # <<>>
        /\ steps[Len(steps)] = step

(***************************************************************************)
(* Claims about parseQuantity (SpecQty).                                   *)
(***************************************************************************)

\* C5: parseQuantity returns wasFraction = true only with an actual number as
\* the value, and a numeric-shaped text that does not parse to a number at the
\* mixed-fraction, simple-fraction or plain-decimal stage yields
\* { value: trimmed text, wasFraction: false }.
C5_FallbackToTrimmedText ==
    phase = "parsed" =>
        /\ parsed.wasFraction => IsNumeric(parsed.quantity)
        /\ (IsNumberShaped(quantity) /\ Trim(quantity) # <<>>
                /\ ~IsNumeric(parsed.quantity))
              => parsed = ParsedQuantity(Str(Trim(quantity)), FALSE)

(***************************************************************************)
(* Claims about the formatter (SpecFmt).                                   *)
(***************************************************************************)
\* the value handed to numberToFractionString
Scaled == scaleQuantity(parsed.quantity, scale)

FractionRendered == phase # "parsed" /\ parsed.wasFraction /\ IsNumeric(Scaled)

Magnitude(v) == Num(Abs(v.n), v.d)

Remainder(v) == Num(Magnitude(v).n % Magnitude(v).d, Magnitude(v).d)

\* |r - round(d * r) / d| <= 0.01: the tolerance taken on the remainder
ReconstructsRemainder(r, d) ==
    100 * Abs(d * r.n - Round(Num(d * r.n, r.d)) * r.d) <= d * r.d

\* |d * r - round(d * r)| <= 0.01: the tolerance taken on the numerator
ReconstructsNumerator(r, d) ==
    100 * Abs(d * r.n - Round(Num(d * r.n, r.d)) * r.d) <= r.d

\* one-decimal formatting of a non-negative value, a trailing ".0" dropped
OneDecimal(v) ==
    LET tenths == Round(Num(10 * v.n, v.d))
    IN  IF tenths % 10 = 0 THEN NatToStr(tenths \div 10)
        ELSE NatToStr(tenths \div 10) \o <<".">> \o NatToStr(tenths % 10)

\* the text the claim describes for v, given the set of qualifying denominators
Described(v, qualifying) ==
    LET whole == Floor(Magnitude(v))
        r == Remainder(v)
        sign == IF v.n < 0 THEN <<"-">> ELSE <<>>
    IN  IF qualifying = {} THEN OneDecimal(Magnitude(v))
        ELSE LET d == CHOOSE x \in qualifying : \A y \in qualifying : x <= y
                 numerator == Round(Num(d * r.n, r.d))
             IN  IF d = 1
                 THEN (IF whole + numerator = 0 THEN <<>> ELSE sign)
                          \o NatToStr(whole + numerator)
                 ELSE sign
                          \o (IF whole = 0 THEN <<>> ELSE NatToStr(whole) \o <<" ">>)
                          \o NatToStr(numerator) \o <<"/">> \o NatToStr(d)

\* C6 as stated: the smallest denominator d in 1..9 with
\* |r - round(d*r)/d| <= 0.01 is chosen and rendered.
C6_ToleranceOnRemainder ==
    FractionRendered =>
        rendered = Described(Scaled,
                       {d \in 1..9 : ReconstructsRemainder(Remainder(Scaled), d)})

\* C6 amended: format(v, true) chooses the smallest denominator d in 1..9 with
\* |d*r - round(d*r)| <= 0.01 (the distance of d*r to the numerator); d = 1
\* renders the signed integer, d > 1 renders "[sign][whole ]numerator/d", and
\* no such d renders the one-decimal form of whole + r.
C6_ToleranceOnNumerator ==
    FractionRendered =>
        rendered = Described(Scaled,
                       {d \in 1..9 : ReconstructsNumerator(Remainder(Scaled), d)})

\* a negative value with a whole part was rendered as a fraction whose
\* denominator is 3 or more
C6_Witness ==
    /\ FractionRendered
    /\ Scaled.n < 0
    /\ Floor(Magnitude(Scaled)) > 0
    /\ \E d \in 3..9 :
          /\ ReconstructsNumerator(Remainder(Scaled), d)
          /\ \A e \in 1..(d - 1) : ~ReconstructsNumerator(Remainder(Scaled), e)

\* the rendered text is numerically what was rendered: within 0.01
RoundTrips ==
    /\ IsNumeric(reparsed.quantity)
    /\ 100 * Abs(reparsed.quantity.n * Scaled.d - Scaled.n * reparsed.quantity.d)
           <= reparsed.quantity.d * Scaled.d

\* C7 as stated: every v that is a whole number plus a fraction some denominator
\* in 1..9 reconstructs within 0.01 is recovered within 0.01 by
\* parseQuantity(format(v, true)).
C7_RoundTripAnyValue ==
    (/\ phase = "reparsed"
     /\ FractionRendered
     /\ \E d \in 1..9 : ReconstructsRemainder(Remainder(Scaled), d))
        => RoundTrips

\* C7 amended: every v >= 0 whose remainder r has |d*r - round(d*r)| <= 0.01 for
\* some d in 1..9 is recovered within 0.01 by parseQuantity(format(v, true)).
C7_RoundTripNonNegative ==
    (/\ phase = "reparsed"
     /\ FractionRendered
     /\ Scaled.n >= 0
     /\ \E d \in 1..9 : ReconstructsNumerator(Remainder(Scaled), d))
        => RoundTrips

\* a mixed fraction "W N/D" was rendered and parsed back
C7_Witness ==
    /\ phase = "reparsed"
    /\ FractionRendered
    /\ Scaled.n >= 0
    /\ Includes(rendered, " ")
    /\ Includes(rendered, "/")
    /\ reparsed.wasFraction
    /\ RoundTrips

\* the numerator and the denominator read off a rendered text "...N/D"
RenderedFraction ==
    LET pieces == Split(rendered, " ")
        last == pieces[Len(pieces)]
        unsigned == IF Head(last) = "-" THEN Tail(last) ELSE last
        nd == Split(unsigned, "/")
    IN  [numerator |-> DigitsToNat(nd[1]), denominator |-> DigitsToNat(nd[2])]

\* C10: a fraction rendered by numberToFractionString(n, true) is proper and in
\* lowest terms: 0 < numerator < d and gcd(numerator, d) = 1.
C10_ProperLowestTerms ==
    (FractionRendered /\ Includes(rendered, "/")) =>
        /\ 0 < RenderedFraction.numerator
        /\ RenderedFraction.numerator < RenderedFraction.denominator
        /\ GCD(RenderedFraction.numerator, RenderedFraction.denominator) = 1

\* a remainder that 4/6 and 6/9 reconstruct too was rendered, as 2/3
C10_Witness ==
    /\ FractionRendered
    /\ Includes(rendered, "/")
    /\ RenderedFraction = [numerator |-> 2, denominator |-> 3]
    /\ ReconstructsNumerator(Remainder(Scaled), 6)
    /\ ReconstructsNumerator(Remainder(Scaled), 9)

(***************************************************************************)
(* Claims about the recipe page (SpecPage).                                *)
(***************************************************************************)
\* the Method section is on screen with the steps of the recipe
MethodShown == recipe.loaded /\ selected = "Method"

\* the step with index k (0-based) has an ingredient
HasIngredient(k) == IngredientSteps(recipe.steps[k + 1]) # {}

\* C11: through any sequence of step-checkbox toggles and switches between the
\* Ingredients and Method tabs, checkedSteps contains the step index k exactly
\* when the checkbox of step k is shown checked and step k has an ingredient.
\* It is stated where the checkboxes of the steps are on screen.
C11_CheckedStepsAreCheckedBoxes ==
    MethodShown =>
        \A k \in 0..(Len(recipe.steps) - 1) :
            k \in checkedSteps <=> (stepChecked[k + 1] /\ HasIngredient(k))

====
